---- MODULE Spec2Model ----
(***************************************************************************)
(* WeatherDataPipeline (weather_pipeline.py): load_data, clean_data,       *)
(* transform_data, analyze_data, save_results and run_pipeline, modelled   *)
(* as operations on one pipeline instance.                                 *)
(*                                                                         *)
(* Encoding of the table cells                                             *)
(*   date     NaT (0) is the missing date, InvalidDate (-1) is text that   *)
(*            does not parse as a date, d >= 1 is the d-th day of 2023-01. *)
(*   city     NoCity (0) is a missing city, c >= 1 is a city name; the     *)
(*            order of the numbers is the lexical order of the names.      *)
(*   numeric  NaN (-1) is a missing number; a reading of v degrees (or     *)
(*            percent, or kph) is the integer v * Scale, so that medians   *)
(*            of medians and the Fahrenheit conversion stay exact.         *)
(*   weather_condition  a sequence of one-character strings; CondNaN is    *)
(*            the missing value.                                           *)
(***************************************************************************)
EXTENDS Integers, Sequences, FiniteSets, TLC

VARIABLES input_file, df, call

vars == <<input_file, df, call>>

----------------------------------------------------------------------------
(* Bounds of the model. *)

MaxCondRows == 2
MaxNumRows == 3
MaxGroupRows == 3
MaxSchemaRows == 2
MaxSortRows == 3
MaxCities == 6
MaxDay == 2

(* Program constants. *)
TopN == 5
Scale == 40

NaT == 0
InvalidDate == -1
NoCity == 0
NaN == -1
None == [loaded |-> FALSE]
CondNaN == <<"<NaN>">>

----------------------------------------------------------------------------
(* Generic helpers on sequences. *)

Range(s) == {s[i] : i \in 1..Len(s)}

Min(a, b) == IF a <= b THEN a ELSE b

RECURSIVE SelectRows(_, _)
(* The rows of s, in order, whose position is in keep. *)
SelectRows(s, keep) ==
    IF s = <<>> THEN <<>>
    ELSE LET n == Len(s)
             front == SelectRows(SubSeq(s, 1, n - 1), keep)
         IN IF n \in keep THEN Append(front, s[n]) ELSE front

RECURSIVE InsertAsc(_, _)
InsertAsc(s, v) ==
    IF s = <<>> THEN <<v>>
    ELSE IF v < s[1] THEN <<v>> \o s
    ELSE <<s[1]>> \o InsertAsc(Tail(s), v)

RECURSIVE SortAsc(_)
SortAsc(s) == IF s = <<>> THEN <<>> ELSE InsertAsc(SortAsc(Tail(s)), s[1])

----------------------------------------------------------------------------
(* Strings: str.lower() and str.strip(). *)

UpperLetters == <<"A","B","C","D","E","F","G","H","I","J","K","L","M",
                  "N","O","P","Q","R","S","T","U","V","W","X","Y","Z">>
LowerLetters == <<"a","b","c","d","e","f","g","h","i","j","k","l","m",
                  "n","o","p","q","r","s","t","u","v","w","x","y","z">>
Whitespace == {" ", "\t", "\n", "\r"}

LowerChar(c) ==
    IF \E i \in 1..Len(UpperLetters) : UpperLetters[i] = c
    THEN LowerLetters[CHOOSE i \in 1..Len(UpperLetters) : UpperLetters[i] = c]
    ELSE c

StrLower(s) == [i \in 1..Len(s) |-> LowerChar(s[i])]

RECURSIVE LStrip(_)
LStrip(s) ==
    IF s = <<>> THEN <<>>
    ELSE IF s[1] \in Whitespace THEN LStrip(Tail(s)) ELSE s

RECURSIVE RStrip(_)
RStrip(s) ==
    IF s = <<>> THEN <<>>
    ELSE IF s[Len(s)] \in Whitespace THEN RStrip(SubSeq(s, 1, Len(s) - 1)) ELSE s

StrStrip(s) == RStrip(LStrip(s))

(* astype(str): the missing value becomes the text "nan". *)
AsTypeStr(c) == IF c = CondNaN THEN <<"n","a","n">> ELSE c

S_empty == <<>>
S_blank == <<" ">>
S_blank2 == <<" ", " ">>
S_NA == <<"N","A">>
S_N_A == <<"N","/","A">>
S_NaN == <<"N","a","N">>
S_None == <<"N","o","n","e">>
S_unknown == <<"u","n","k","n","o","w","n">>
S_Unknown == <<"U","n","k","n","o","w","n">>
S_UNKNOWN == <<"U","N","K","N","O","W","N">>
S_unknown_padded == <<" ","u","n","k","n","o","w","n"," ">>
S_Sunny == <<"S","u","n","n","y">>
S_rainy == <<"r","a","i","n","y">>

na_values == {S_empty, S_blank, S_NA, S_N_A, S_NaN, S_None, S_unknown, S_Unknown}

----------------------------------------------------------------------------
(* The schema. *)

required_columns == {"date", "city", "temperature_celsius", "humidity_percent",
                     "wind_speed_kph", "weather_condition"}

numeric_cols == <<"temperature_celsius", "humidity_percent", "wind_speed_kph">>

derived_columns == {"year", "month", "day", "temperature_fahrenheit"}

analysis_cols == Range(numeric_cols) \cup {"temperature_fahrenheit"}

----------------------------------------------------------------------------
(* load_data: pd.read_csv with parse_dates=["date"] and na_values. *)

(* A cell of the file as read_csv delivers it. *)
ParseCell(col, v) ==
    CASE col = "weather_condition" -> IF v \in na_values THEN CondNaN ELSE v
      [] col \in Range(numeric_cols) -> IF v = NaN THEN NaN ELSE v * Scale
      [] OTHER -> v

Missing(col) ==
    CASE col = "weather_condition" -> CondNaN
      [] col = "date" -> NaT
      [] col = "city" -> NoCity
      [] OTHER -> NaN

(* Row i of the file as a row of the frame; idx is the frame's index label.
   A column the file does not have, and the derived columns before
   transform_data, hold the missing value and are not in the frame's columns. *)
ReadRow(f, i) ==
    [col \in required_columns \cup derived_columns \cup {"idx"} |->
        IF col = "idx" THEN i - 1
        ELSE IF col \in f.columns THEN ParseCell(col, f.rows[i][col])
        ELSE Missing(col)]

read_csv(f) ==
    [loaded |-> TRUE,
     columns |-> f.columns,
     rows |-> [i \in 1..Len(f.rows) |-> ReadRow(f, i)]]

(* load_data on an instance whose table is d, reading file f.  self.df is
   assigned before the required columns are checked. *)
load_data(d, f) ==
    IF ~f.readable THEN [outcome |-> "IOError", df |-> d]
    ELSE IF "date" \notin f.columns THEN [outcome |-> "ValueError", df |-> d]
    ELSE IF required_columns \ f.columns # {}
         THEN [outcome |-> "MissingColumns", df |-> read_csv(f)]
    ELSE [outcome |-> "ok", df |-> read_csv(f)]

----------------------------------------------------------------------------
(* clean_data. *)

(* pd.to_datetime(errors='coerce') *)
to_datetime(v) == IF v >= 1 THEN v ELSE NaT

CoerceDates(rows) ==
    [i \in 1..Len(rows) |-> [rows[i] EXCEPT !["date"] = to_datetime(@)]]

(* dropna(subset=['date']) *)
DropMissingDates(rows) ==
    SelectRows(rows, {i \in 1..Len(rows) : rows[i]["date"] # NaT})

(* astype(str).str.lower().str.strip() *)
Standardize(c) == StrStrip(StrLower(AsTypeStr(c)))

StandardizeConditions(rows) ==
    [i \in 1..Len(rows) |->
        [rows[i] EXCEPT !["weather_condition"] = Standardize(@)]]

(* Mutant: the filter forgets the 'unknown' label. *)
FilterUnknownKeepsUnknown(rows) ==
    SelectRows(rows, {i \in 1..Len(rows) :
                        rows[i]["weather_condition"] \notin {S_empty}})

(* self.df[~self.df['weather_condition'].isin(['unknown', ''])] *)
FilterUnknown(rows) ==
    SelectRows(rows, {i \in 1..Len(rows) :
                        rows[i]["weather_condition"] \notin {S_unknown, S_empty}})

(* Series.median(): the median of the values that are not missing, NaN when
   there is none. *)
Median(vals) ==
    LET s == SortAsc(vals)
        n == Len(s)
    IN IF n = 0 THEN NaN
       ELSE IF n % 2 = 1 THEN s[(n + 1) \div 2]
       ELSE (s[n \div 2] + s[n \div 2 + 1]) \div 2

(* The values of column col that are not missing, over the rows in keep. *)
Present(rows, col, keep) ==
    LET sel == SelectRows(rows, {i \in keep : rows[i][col] # NaN})
    IN [i \in 1..Len(sel) |-> sel[i][col]]

(* groupby('city')[col].transform(lambda x: x.fillna(x.median())): a row
   whose city is missing belongs to no group and gets NaN by the index
   alignment of the assignment. *)
GroupFill(rows, col) ==
    [i \in 1..Len(rows) |->
        LET r == rows[i]
            group == {j \in 1..Len(rows) : rows[j]["city"] = r["city"]}
        IN [r EXCEPT ![col] =
              IF r["city"] = NoCity THEN NaN
              ELSE IF @ # NaN THEN @
              ELSE Median(Present(rows, col, group))]]

(* self.df[col].fillna(self.df[col].median()) *)
GlobalFill(rows, col) ==
    LET m == Median(Present(rows, col, 1..Len(rows)))
    IN [i \in 1..Len(rows) |->
          [rows[i] EXCEPT ![col] = IF @ = NaN THEN m ELSE @]]

RECURSIVE FillColumns(_, _, _, _)
(* One of the two loops over numeric_cols, from column k on. *)
FillColumns(rows, columns, k, global) ==
    IF k > Len(numeric_cols) THEN rows
    ELSE LET col == numeric_cols[k]
             filled == IF col \notin columns THEN rows
                       ELSE IF global THEN GlobalFill(rows, col)
                       ELSE GroupFill(rows, col)
         IN FillColumns(filled, columns, k + 1, global)

(* The table after the two row filters. *)
Filtered(d) ==
    LET dated == DropMissingDates(CoerceDates(d.rows))
    IN IF "weather_condition" \in d.columns
       THEN FilterUnknown(StandardizeConditions(dated))
       ELSE dated

CleanBody(d) ==
    IF "date" \notin d.columns THEN [outcome |-> "KeyError", df |-> d]
    ELSE IF "city" \notin d.columns /\ Range(numeric_cols) \cap d.columns # {}
         THEN [outcome |-> "KeyError", df |-> [d EXCEPT !.rows = Filtered(d)]]
    ELSE [outcome |-> "ok",
          df |-> [d EXCEPT !.rows =
                    FillColumns(FillColumns(Filtered(d), d.columns, 1, FALSE),
                                d.columns, 1, TRUE)]]

(* Mutant: the guard on self.df is missing. *)
clean_data_unguarded(d) ==
    IF d = None THEN [outcome |-> "ok", df |-> [loaded |-> TRUE, columns |-> {}, rows |-> <<>>]]
    ELSE CleanBody(d)

clean_data(d) ==
    IF d = None THEN [outcome |-> "NotLoaded", df |-> d]
    ELSE CleanBody(d)

----------------------------------------------------------------------------
(* transform_data. *)

RECURSIVE Perms(_)
(* All the orders of a set of rows. *)
Perms(S) ==
    IF S = {} THEN {<<>>}
    ELSE UNION {{<<x>> \o p : p \in Perms(S \ {x})} : x \in S}

RECURSIVE SortedFrom(_, _)
(* The orders of the dated rows by ascending date, from date d on, each
   group of equal dates in any order. *)
SortedFrom(rows, d) ==
    LET later == {r \in Range(rows) : r["date"] >= d}
    IN IF later = {} THEN {<<>>}
       ELSE LET same == {r \in later : r["date"] = d}
            IN {p \o q : p \in Perms(same), q \in SortedFrom(rows, d + 1)}

(* sort_values('date') with the default kind='quicksort', which is not a
   stable sort: the results it may give are the orders by ascending date,
   rows of equal date in any order, rows without a date last in the order
   they had. *)
sort_values(rows) ==
    LET undated == SelectRows(rows, {i \in 1..Len(rows) : rows[i]["date"] = NaT})
    IN {p \o undated : p \in SortedFrom(rows, 1)}

(* .dt.year, .dt.month, .dt.day and the Fahrenheit column. *)
Derive(columns, r) ==
    LET dated == r["date"] # NaT
        withDate == [r EXCEPT !["year"] = IF dated THEN 2023 ELSE NaN,
                              !["month"] = IF dated THEN 1 ELSE NaN,
                              !["day"] = IF dated THEN r["date"] ELSE NaN]
    IN IF "temperature_celsius" \in columns
       THEN [withDate EXCEPT !["temperature_fahrenheit"] =
               IF r["temperature_celsius"] = NaN THEN NaN
               ELSE (r["temperature_celsius"] * 9) \div 5 + 32 * Scale]
       ELSE withDate

DerivedColumns(columns) ==
    columns \cup {"year", "month", "day"}
            \cup (IF "temperature_celsius" \in columns
                  THEN {"temperature_fahrenheit"} ELSE {})

(* The set of results transform_data may give on table d. *)
transform_data(d) ==
    IF d = None THEN {[outcome |-> "NotLoaded", df |-> d]}
    ELSE IF "date" \notin d.columns THEN {[outcome |-> "KeyError", df |-> d]}
    ELSE {[outcome |-> "ok",
           df |-> [d EXCEPT !.columns = DerivedColumns(d.columns),
                            !.rows = [i \in 1..Len(s) |-> Derive(d.columns, s[i])]]] :
            s \in sort_values(CoerceDates(d.rows))}

----------------------------------------------------------------------------
(* analyze_data. *)

(* The keys of groupby('city'), sorted; a missing city is no key. *)
Cities(rows) == SortAsc(
    LET S == {rows[i]["city"] : i \in 1..Len(rows)} \ {NoCity}
        RECURSIVE AsSeq(_)
        AsSeq(T) == IF T = {} THEN <<>>
                    ELSE LET x == CHOOSE x \in T : TRUE
                         IN <<x>> \o AsSeq(T \ {x})
    IN AsSeq(S))

RECURSIVE SumSeq(_)
SumSeq(s) == IF s = <<>> THEN 0 ELSE s[1] + SumSeq(Tail(s))

(* groupby("city")["temperature_celsius"].mean(): per city, the sum and the
   count of the temperatures that are not missing (the mean is sum / n, and
   is missing when n = 0). *)
CityMeans(rows) ==
    LET keys == Cities(rows)
    IN [k \in 1..Len(keys) |->
          LET vals == Present(rows, "temperature_celsius",
                              {i \in 1..Len(rows) : rows[i]["city"] = keys[k]})
          IN [city |-> keys[k], sum |-> SumSeq(vals), n |-> Len(vals)]]

(* a's mean is greater than b's. *)
MeanGreater(a, b) == a.sum * b.n > b.sum * a.n

RECURSIVE InsertDesc(_, _)
InsertDesc(s, e) ==
    IF s = <<>> THEN <<e>>
    ELSE IF MeanGreater(e, s[1]) THEN <<e>> \o s
    ELSE <<s[1]>> \o InsertDesc(Tail(s), e)

RECURSIVE SortDesc(_)
(* Descending by mean; entries of equal mean keep their order. *)
SortDesc(s) ==
    IF s = <<>> THEN <<>>
    ELSE InsertDesc(SortDesc(SubSeq(s, 1, Len(s) - 1)), s[Len(s)])

FirstN(s, n) == SubSeq(s, 1, Min(n, Len(s)))

(* Mutant: the ranking is not cut at n entries. *)
nlargest_uncut(series, n) ==
    SortDesc(SelectRows(series, {i \in 1..Len(series) : series[i].n > 0}))
    \o SelectRows(series, {i \in 1..Len(series) : series[i].n = 0})

(* Series.nlargest(n): the n entries of greatest mean in descending order,
   the first of equal means first; entries without a mean come last. *)
nlargest(series, n) ==
    FirstN(SortDesc(SelectRows(series, {i \in 1..Len(series) : series[i].n > 0}))
         \o SelectRows(series, {i \in 1..Len(series) : series[i].n = 0}), n)

(* round(x / y) to the nearest integer, halves to even, for x >= 0, y > 0. *)
RoundDiv(x, y) ==
    LET q == x \div y
        r == x % y
    IN IF 2 * r > y \/ (2 * r = y /\ q % 2 = 1) THEN q + 1 ELSE q

(* .round(2): the mean in hundredths of a degree. *)
Round2(e) ==
    [city |-> e.city,
     mean |-> IF e.n = 0 THEN NaN ELSE RoundDiv(e.sum * 100, e.n * Scale)]

NoResults == [views |-> <<>>, top_cities |-> <<>>]

analyze_data(d) ==
    IF d = None THEN [outcome |-> "NotLoaded", results |-> NoResults]
    ELSE IF ~(analysis_cols \cup {"city", "weather_condition"} \subseteq d.columns)
         THEN [outcome |-> "KeyError", results |-> NoResults]
    ELSE LET top == nlargest(CityMeans(d.rows), TopN)
         IN [outcome |-> "ok",
             results |-> [views |-> <<"basic_stats", "city_stats", "weather_freq",
                                     "top_cities">>,
                          top_cities |-> [i \in 1..Len(top) |-> Round2(top[i])]]]

----------------------------------------------------------------------------
(* save_results, generate_report and plot_temperature_by_city. *)

ViewFile(name) ==
    CASE name = "basic_stats" -> "basic_stats.csv"
      [] name = "city_stats" -> "city_stats.csv"
      [] name = "weather_freq" -> "weather_freq.csv"
      [] name = "top_cities" -> "top_cities.csv"

(* The files save_results writes, in the order it writes them. *)
Artifacts(results) ==
    LET saved == SelectRows(results.views,
                            {i \in 1..Len(results.views) : results.views[i] # "top_cities"})
    IN <<"transformed_weather_data.csv">>
       \o [i \in 1..Len(saved) |-> ViewFile(saved[i])]
       \o <<"top_cities_report.md", "avg_temperature_by_city.png">>

(* save_results when the failAt-th write fails (none does when failAt is
   past the last file): the files before it are written and stay. *)
save_results(d, results, failAt) ==
    IF d = None THEN [outcome |-> "ValueError", written |-> <<>>]
    ELSE LET files == Artifacts(results)
         IN IF failAt <= Len(files)
            THEN [outcome |-> "IOError", written |-> SubSeq(files, 1, failAt - 1)]
            ELSE [outcome |-> "ok", written |-> files]

----------------------------------------------------------------------------
(* run_pipeline. *)

(* Mutant: the handler reports success too. *)
ReturnedAlwaysTrue(failed) == TRUE

(* What run_pipeline returns: True at the end of the try block, False from
   the except clause. *)
Returned(failed) == failed = "none"

RunResult(d, stages, failed, written) ==
    [ret |-> Returned(failed), df |-> d, stages |-> stages, failed |-> failed,
     written |-> written]

(* The set of results run_pipeline may give on an instance whose table is d,
   reading file f: one for each order the sort may produce and each write
   of the export that may fail. *)
run_pipeline(d, f) ==
    LET l == load_data(d, f)
        c == clean_data(l.df)
    IN IF l.outcome # "ok" THEN {RunResult(l.df, <<"load">>, "load", <<>>)}
       ELSE IF c.outcome # "ok"
            THEN {RunResult(c.df, <<"load", "clean">>, "clean", <<>>)}
       ELSE UNION {
            IF t.outcome # "ok"
            THEN {RunResult(t.df, <<"load", "clean", "transform">>, "transform", <<>>)}
            ELSE LET a == analyze_data(t.df)
                 IN IF a.outcome # "ok"
                    THEN {RunResult(t.df, <<"load", "clean", "transform", "analyze">>,
                                    "analyze", <<>>)}
                    ELSE {LET s == save_results(t.df, a.results, k)
                          IN RunResult(t.df,
                                       <<"load", "clean", "transform", "analyze", "export">>,
                                       IF s.outcome = "ok" THEN "none" ELSE "export",
                                       s.written) :
                          k \in 1..(Len(Artifacts(a.results)) + 1)}
            : t \in transform_data(c.df)}

----------------------------------------------------------------------------
(* The pipeline instance: its input file, its table self.df, and the last
   call made on it: its outcome, what it returned and the files it wrote to
   the output directory. *)

Call(op, outcome, results, stages, failed, written) ==
    [op |-> op, outcome |-> outcome, results |-> results, stages |-> stages,
     failed |-> failed, written |-> written]

NoCall == Call("__init__", "ok", NoResults, <<>>, "none", <<>>)

LoadData ==
    LET r == load_data(df, input_file)
    IN /\ df' = r.df
       /\ call' = Call("load_data", r.outcome, NoResults, <<>>, "none", <<>>)
       /\ UNCHANGED input_file

CleanData ==
    LET r == clean_data(df)
    IN /\ df' = r.df
       /\ call' = Call("clean_data", r.outcome, NoResults, <<>>, "none", <<>>)
       /\ UNCHANGED input_file

TransformData ==
    \E r \in transform_data(df) :
       /\ df' = r.df
       /\ call' = Call("transform_data", r.outcome, NoResults, <<>>, "none", <<>>)
       /\ UNCHANGED input_file

AnalyzeData ==
    LET r == analyze_data(df)
    IN /\ call' = Call("analyze_data", r.outcome, r.results, <<>>, "none", <<>>)
       /\ UNCHANGED <<input_file, df>>

RunPipeline ==
    \E r \in run_pipeline(df, input_file) :
       /\ df' = r.df
       /\ call' = Call("run_pipeline", IF r.ret THEN "True" ELSE "False",
                       NoResults, r.stages, r.failed, r.written)
       /\ UNCHANGED input_file

Next == LoadData \/ CleanData \/ TransformData \/ AnalyzeData \/ RunPipeline

----------------------------------------------------------------------------
(* The input files the instance is constructed on. *)

SeqsUpTo(S, n) == UNION {[1..k -> S] : k \in 0..n}

(* The rows of a file: at least one, at most n. *)
RowsUpTo(S, n) == SeqsUpTo(S, n) \ {<<>>}

FileRow(date, city, t, h, w, cond) ==
    [date |-> date, city |-> city, temperature_celsius |-> t,
     humidity_percent |-> h, wind_speed_kph |-> w, weather_condition |-> cond]

File(readable, columns, rows) ==
    [readable |-> readable, columns |-> columns, rows |-> rows]

(* Complete files whose rows differ in date and weather_condition. *)
CondTokens == {S_empty, S_blank2, S_Unknown, S_UNKNOWN, S_unknown_padded, S_Sunny}

CondRows == {FileRow(d, 1, 1, 1, 1, c) : d \in {NaT, InvalidDate, 1}, c \in CondTokens}

CondFiles == {File(TRUE, required_columns, rows) : rows \in RowsUpTo(CondRows, MaxCondRows)}

(* The rows whose date parses are on consecutive days. *)
OnConsecutiveDays(rows) ==
    File(TRUE, required_columns,
         [i \in 1..Len(rows) |->
            [rows[i] EXCEPT !.date = IF @ = InvalidDate THEN @ ELSE i]])

(* Complete files whose rows all have a city and differ in city,
   temperature and humidity; one kind of row has a date that does not
   parse. *)
NumRows ==
    {FileRow(1, c, t, h, 2, S_Sunny) : c \in {1, 2}, t \in {NaN, 1, 3}, h \in {NaN, 2}}
    \cup {FileRow(InvalidDate, 1, 3, 2, NaN, S_Sunny)}

NumFiles == {OnConsecutiveDays(rows) : rows \in RowsUpTo(NumRows, MaxNumRows)}

(* Complete files some of whose rows lack the city. *)
GroupRows ==
    {FileRow(1, c, t, 2, 2, S_Sunny) : c \in {NoCity, 1, 2}, t \in {NaN, 1, 3}}
    \cup {FileRow(InvalidDate, 1, 3, 2, NaN, S_Sunny)}

GroupFiles == {OnConsecutiveDays(rows) : rows \in RowsUpTo(GroupRows, MaxGroupRows)}

(* Complete files whose rows differ in date. *)
SortRows == {FileRow(d, 1, 1, 1, 1, S_Sunny) : d \in (1..MaxDay) \cup {NaT}}

SortFiles == {File(TRUE, required_columns, rows) : rows \in RowsUpTo(SortRows, MaxSortRows)}

(* Complete files of up to MaxCities cities on consecutive days: one row
   for each city, and possibly one more row: of city 1 or 2, of no city, or
   of a further city and without a temperature. *)
CityFileOf(n, temp, extra) ==
    File(TRUE, required_columns,
         [i \in 1..n |-> FileRow(i, i, temp[i], 2, 2, S_Sunny)]
         \o [i \in 1..Len(extra) |->
               FileRow(n + i, extra[i][1], extra[i][2], 2, 2, S_Sunny)])

AllCityFiles ==
    UNION {{CityFileOf(n, temp, extra) :
              temp \in [1..n -> {1, 3}],
              extra \in SeqsUpTo(({NoCity, 1, 2} \X {1, 3}) \cup {<<n + 1, NaN>>}, 1)} :
           n \in 0..MaxCities}

CityFiles == {f \in AllCityFiles : f.rows # <<>>}

(* Files that cannot be read, or lack one of the required columns. *)
SchemaRows == {FileRow(1, 1, 1, 1, 1, S_Sunny),
               FileRow(1, 1, NaN, 1, 1, S_Unknown),
               FileRow(InvalidDate, 1, 1, 1, 1, S_rainy)}

SchemaFiles ==
    {File(FALSE, required_columns, <<>>)}
    \cup {File(TRUE, columns, rows) :
            columns \in {required_columns} \cup {required_columns \ {c} : c \in required_columns},
            rows \in RowsUpTo(SchemaRows, MaxSchemaRows)}

----------------------------------------------------------------------------
(* __init__: nothing is loaded. *)

InitOn(files) ==
    /\ input_file \in files
    /\ df = None
    /\ call = NoCall

Init == InitOn(SchemaFiles)
InitCond == InitOn(CondFiles)
InitNum == InitOn(NumFiles)
InitGroup == InitOn(GroupFiles)
InitSort == InitOn(SortFiles)
InitCity == InitOn(CityFiles)

Spec == Init /\ [][Next]_vars
SpecCond == InitCond /\ [][Next]_vars
SpecNum == InitNum /\ [][Next]_vars
SpecGroup == InitGroup /\ [][Next]_vars
SpecSort == InitSort /\ [][Next]_vars
SpecCity == InitCity /\ [][Next]_vars

----------------------------------------------------------------------------
(* Properties. *)

Returns(op) == call.op = op /\ call.outcome = "ok"

(* The position in rows of the row whose index label is idx (0 if none). *)
PosOf(rows, idx) ==
    IF \E i \in 1..Len(rows) : rows[i]["idx"] = idx
    THEN CHOOSE i \in 1..Len(rows) : rows[i]["idx"] = idx
    ELSE 0

(* C1: after clean_data returns, no row has a missing date and no row's
   weather_condition is empty or equal to "unknown". *)
C1_CleanedRows ==
    Returns("clean_data") =>
        \A i \in 1..Len(df.rows) :
            /\ df.rows[i]["date"] >= 1
            /\ "weather_condition" \in df.columns =>
                   df.rows[i]["weather_condition"] \notin {S_empty, S_unknown}

(* clean_data returned on a two-row file one of whose rows, validly dated,
   was labelled UNKNOWN and was dropped, while the other row survived. *)
C1_Witness ==
    /\ Returns("clean_data")
    /\ Len(input_file.rows) = 2
    /\ \E i \in 1..2 : /\ input_file.rows[i].weather_condition = S_UNKNOWN
                       /\ input_file.rows[i].date >= 1
                       /\ PosOf(df.rows, i - 1) = 0
    /\ Len(df.rows) = 1

(* C2: after clean_data returns, none of the numeric columns contains a
   missing value, whatever the input table. *)
C2_NoMissingNumbers ==
    Returns("clean_data") =>
        \A i \in 1..Len(df.rows) :
            \A col \in Range(numeric_cols) \cap df.columns : df.rows[i][col] # NaN

(* The values of col, before the call, of the surviving rows of city c. *)
CityValues(before, after, col, c) ==
    Present(before, col,
            {j \in 1..Len(before) : /\ before[j]["city"] = c
                                    /\ PosOf(after, before[j]["idx"]) # 0})

C3_Imputed(before, after) ==
    \A i \in 1..Len(after) : \A col \in Range(numeric_cols) :
        LET old == before[PosOf(before, after[i]["idx"])]
            vals == CityValues(before, after, col, old["city"])
        IN /\ old[col] # NaN => after[i][col] = old[col]
           /\ (old[col] = NaN /\ Len(vals) > 0) => after[i][col] = Median(vals)

(* C3: in clean_data, a surviving row's missing value in a numeric column
   becomes the median of the values the surviving rows of its city had in
   that column, when there is one; a value that was not missing is left
   unchanged. *)
C3_GroupMedian ==
    [][(call'.op = "clean_data" /\ call'.outcome = "ok")
          => C3_Imputed(df.rows, df'.rows)]_vars

SortedByDate(rows) ==
    \A i, j \in 1..Len(rows) :
        (i < j /\ rows[i]["date"] # NaT /\ rows[j]["date"] # NaT)
            => rows[i]["date"] <= rows[j]["date"]

StableOrder(before, after) ==
    \A i, j \in 1..Len(after) :
        (i < j /\ after[i]["date"] = after[j]["date"])
            => PosOf(before, after[i]["idx"]) < PosOf(before, after[j]["idx"])

(* C4: after transform_data returns, the rows are in non-decreasing order of
   date, and rows of equal date keep the relative order they had before. *)
C4_StableSort ==
    [][(call'.op = "transform_data" /\ call'.outcome = "ok")
          => (SortedByDate(df'.rows) /\ StableOrder(df.rows, df'.rows))]_vars

DistinctCities(rows) == {rows[i]["city"] : i \in 1..Len(rows)} \ {NoCity}

TempsOf(rows, c) ==
    Present(rows, "temperature_celsius", {i \in 1..Len(rows) : rows[i]["city"] = c})

(* City a's mean temperature is below city b's (both have one). *)
MeanBelow(rows, a, b) ==
    /\ Len(TempsOf(rows, a)) > 0
    /\ Len(TempsOf(rows, b)) > 0
    /\ SumSeq(TempsOf(rows, a)) * Len(TempsOf(rows, b))
           < SumSeq(TempsOf(rows, b)) * Len(TempsOf(rows, a))

(* C5: top_cities has min(5, number of distinct cities) entries, in
   descending order of the city's mean temperature_celsius. *)
C5_TopCities ==
    Returns("analyze_data") =>
        LET top == call.results.top_cities
        IN /\ Len(top) = Min(5, Cardinality(DistinctCities(df.rows)))
           /\ \A i, j \in 1..Len(top) :
                 i < j => ~MeanBelow(df.rows, top[i].city, top[j].city)

(* analyze_data returned on a table of more than five cities whose means are
   not all the same. *)
C5_Witness ==
    /\ Returns("analyze_data")
    /\ Cardinality(DistinctCities(df.rows)) > 5
    /\ Len(call.results.top_cities) = 5
    /\ call.results.top_cities[1].mean # call.results.top_cities[5].mean

(* C6: on an instance whose table was never loaded, clean_data,
   transform_data and analyze_data each fail with the not-loaded error,
   leave the table unloaded and produce no result. *)
C6_NotLoaded ==
    [][(df = None /\ call'.op \in {"clean_data", "transform_data", "analyze_data"})
          => (call'.outcome = "NotLoaded" /\ df' = None /\ call'.results = NoResults)]_vars

(* clean_data was called on the fresh instance and failed. *)
C6_Witness ==
    call.op = "clean_data" /\ call.outcome = "NotLoaded" /\ df = None

(* C7: when load_data fails because a required column is absent, the table
   is still unloaded, and a following clean_data fails with the not-loaded
   error. *)
C7_NoPartialLoad ==
    [][(call.op = "load_data" /\ call.outcome = "MissingColumns"
        /\ call'.op = "clean_data")
          => (df = None /\ call'.outcome = "NotLoaded")]_vars

AllStages == <<"load", "clean", "transform", "analyze", "export">>

(* C8: run_pipeline returns True or False; when a stage fails the stages
   after it are not run and it returns False; it returns True only when
   the five stages completed in order. *)
C8_RunPipeline ==
    call.op = "run_pipeline" =>
        /\ call.outcome \in {"True", "False"}
        /\ call.stages = SubSeq(AllStages, 1, Len(call.stages))
        /\ call.failed # "none" =>
              /\ call.outcome = "False"
              /\ call.stages[Len(call.stages)] = call.failed
        /\ call.outcome = "True" => (call.stages = AllStages /\ call.failed = "none")

(* run_pipeline returned False because the analysis could not be exported. *)
C8_Witness ==
    /\ call.op = "run_pipeline"
    /\ call.outcome = "False"
    /\ call.failed = "export"
    /\ call.stages = AllStages

(* C9: a run of run_pipeline that returns False has written no artifact. *)
C9_NoPartialArtifacts ==
    (call.op = "run_pipeline" /\ call.outcome = "False") => call.written = <<>>

IsUnknownToken(c) == c = S_empty \/ StrLower(c) = S_unknown

(* C10: after load_data then clean_data, no source row with a valid date
   whose weather_condition is empty or "unknown" in any letter case is left
   in the table. *)
C10_UnknownDropped ==
    Returns("clean_data") =>
        \A i \in 1..Len(input_file.rows) :
            (input_file.rows[i].date >= 1
             /\ IsUnknownToken(input_file.rows[i].weather_condition))
                => PosOf(df.rows, i - 1) = 0

====
